---- MODULE Spec2Model ----
(***************************************************************************)
(* react-styled-classnames: the render callback built by                   *)
(* createReactElement (src/src/create/createReactElement.ts).              *)
(*                                                                         *)
(* A class string is a sequence of one-character strings; " " is the only  *)
(* whitespace character.  A properties record is a function from property  *)
(* names to values.  A render is run line by line in a frame (a slot), so  *)
(* that several renders can be interleaved.                                *)
(***************************************************************************)
EXTENDS Naturals, Sequences, FiniteSets, TLC

\* ------------------------------------------------------------- bounds
\* Number of render frames that may be live at once.
NumSlots == 2
\* Largest value of the numeric properties $count and count.
MaxCount == 1

\* ------------------------------------------------------------ strings
SP == " "
EmptyStr == << >>

\* String.prototype.trim, leading part.
RECURSIVE TrimStart(_)
TrimStart(s) ==
    IF s # EmptyStr /\ Head(s) = SP THEN TrimStart(Tail(s)) ELSE s

\* String.prototype.trim, trailing part.
RECURSIVE TrimEnd(_)
TrimEnd(s) ==
    IF s # EmptyStr /\ s[Len(s)] = SP
    THEN TrimEnd(SubSeq(s, 1, Len(s) - 1))
    ELSE s

\* String.prototype.trim
Trim(s) == TrimEnd(TrimStart(s))

\* Array.prototype.filter(Boolean) on an array of strings: the empty string
\* is the only falsy string.
FilterBoolean(parts) == SelectSeq(parts, LAMBDA p : p # EmptyStr)

\* Array.prototype.join(" ")
RECURSIVE JoinSpace(_)
JoinSpace(parts) ==
    IF parts = << >> THEN EmptyStr
    ELSE IF Len(parts) = 1 THEN parts[1]
    ELSE parts[1] \o <<SP>> \o JoinSpace(Tail(parts))

\* The whitespace-separated tokens of a class string, in order.
RECURSIVE TokensFrom(_, _)
TokensFrom(s, cur) ==
    IF s = EmptyStr
    THEN (IF cur = EmptyStr THEN << >> ELSE <<cur>>)
    ELSE IF Head(s) = SP
         THEN (IF cur = EmptyStr THEN << >> ELSE <<cur>>) \o TokensFrom(Tail(s), EmptyStr)
         ELSE TokensFrom(Tail(s), Append(cur, Head(s)))

Tokens(s) == TokensFrom(s, EmptyStr)

\* ------------------------------------------------- property names, values
\* A property name is the sequence of its characters; the characters after
\* a leading "$" are written as one symbol.
ClassNameKey == <<"className">>
RefKey == <<"ref">>
ActiveKey == <<"$", "active">>
CountKey == <<"$", "count">>
PlainCountKey == <<"count">>
DataKey == <<"data", "$">>

\* for (const key in props): the keys of a record in their enumeration order.
KeyOrder == <<ActiveKey, ClassNameKey, CountKey, PlainCountKey, DataKey>>

\* A slip of the prefix test: key === "$" instead of key.startsWith("$").
IsDollar(key) == key = <<"$">>

\* key.startsWith("$")
StartsWithDollar(key) == key # << >> /\ Head(key) = "$"

EmptyProps == [k \in {} |-> EmptyStr]

\* Caller-supplied class names: absent is modelled by the key being absent.
ClassNames ==
    { EmptyStr, <<"x">>, <<"x", SP, "y">>, <<SP, "x", SP>> }

\* The values a caller may give each property.
ValuesOf(key) ==
    IF key = ClassNameKey THEN ClassNames
    ELSE IF key = ActiveKey THEN BOOLEAN
    ELSE IF key = CountKey THEN 0 .. MaxCount
    ELSE IF key = PlainCountKey THEN 1 .. MaxCount
    ELSE {<<"d">>}

Keys == { KeyOrder[i] : i \in DOMAIN KeyOrder }

\* The records over the first i keys of KeyOrder, each key present or absent.
RECURSIVE PropsOver(_)
PropsOver(i) ==
    IF i = 0 THEN { EmptyProps }
    ELSE LET prev == PropsOver(i - 1)
             k == KeyOrder[i]
         IN  prev \cup { (k :> v) @@ p : p \in prev, v \in ValuesOf(k) }

\* Every properties record a caller can pass.  React never hands `ref` to a
\* forwardRef render callback inside props, so RefKey is no key of these.
AllProps == PropsOver(Len(KeyOrder))

Has(p, key) == key \in DOMAIN p

\* The forwarded refs: null when the caller supplied none.
NullRef == "null"
Refs == { NullRef, "refA" }

\* ------------------------------------------- class fragment sources
\* What a call returns: a string, or a thrown error.
Ok(str) == [ok |-> TRUE, val |-> str, err |-> "none"]
Throw(e) == [ok |-> FALSE, val |-> EmptyStr, err |-> e]

\* JavaScript truthiness of a property read: an absent property reads as
\* undefined; 0 and false are falsy.
TruthyFlag(p, key) == Has(p, key) /\ p[key]
TruthyNumber(p, key) == Has(p, key) /\ p[key] # 0

\* The dynamic class-computing functions of the descriptors below:
\*   active  p => p.$active ? "b" : "r"
\*   count   p => p.$count ? "c" : ""
\*   plain   p => p.count ? "n" : ""
\*   strict  p => p.$count.toFixed() && "s"   (throws when $count is absent)
CallFunction(f, p) ==
    IF f = "active" THEN Ok(IF TruthyFlag(p, ActiveKey) THEN <<"b">> ELSE <<"r">>)
    ELSE IF f = "count" THEN Ok(IF TruthyNumber(p, CountKey) THEN <<"c">> ELSE EmptyStr)
    ELSE IF f = "plain" THEN Ok(IF TruthyNumber(p, PlainCountKey) THEN <<"n">> ELSE EmptyStr)
    ELSE IF Has(p, CountKey) THEN Ok(<<"s">>) ELSE Throw("TypeError")

Literal(str) == [kind |-> "literal", str |-> str, fn |-> "none"]
Function(f) == [kind |-> "function", str |-> EmptyStr, fn |-> f]

\* One fragment's contribution: a literal's tokens joined by single spaces,
\* a function's return value.
Contribution(frag, p) ==
    IF frag.kind = "literal" THEN Ok(JoinSpace(Tokens(frag.str)))
    ELSE CallFunction(frag.fn, p)

\* The contributions of a fragment sequence in source order, up to the
\* first function that throws.
RECURSIVE Contributions(_, _)
Contributions(frags, p) ==
    IF frags = << >> THEN [ok |-> TRUE, parts |-> << >>, err |-> "none"]
    ELSE LET c == Contribution(Head(frags), p)
         IN  IF ~c.ok THEN [ok |-> FALSE, parts |-> << >>, err |-> c.err]
             ELSE LET rest == Contributions(Tail(frags), p)
                  IN  IF ~rest.ok THEN rest
                      ELSE [rest EXCEPT !.parts = <<c.val>> \o rest.parts]

\* Class Resolver: the contributions joined by single spaces, falsy ones
\* skipped, surrounding whitespace trimmed.
ResolveFragments(frags, p) ==
    LET cs == Contributions(frags, p)
    IN  IF cs.ok THEN Ok(Trim(JoinSpace(FilterBoolean(cs.parts))))
        ELSE Throw(cs.err)

\* ------------------------------------------------------- descriptors
\* create(tag, fragments, additionalInternalNames)
Create(tag, frags, names) ==
    [tag |-> tag, fragments |-> frags, propsToFilter |-> names]

\* extend(parent, fragments, additionalInternalNames): the parent's
\* fragments followed by the child's, the parent's tag, the union of the
\* internal names.
Extend(parent, frags, names) ==
    [tag |-> parent.tag,
     fragments |-> parent.fragments \o frags,
     propsToFilter |-> parent.propsToFilter \cup names]

SliderItemBase == Create("button", <<Literal(<<"t", SP, SP, "m">>), Function("active")>>, {})
Counter == Create("div", <<Literal(<<"p">>), Function("count")>>, {})
VariantInput == Create("input", <<Function("plain")>>, {PlainCountKey})
Bare == Create("div", << >>, {ClassNameKey})
Strict == Create("span", <<Function("strict")>>, {})

\* The descriptors made by create.
Bases == <<SliderItemBase, Counter, VariantInput, Bare, Strict>>

\* The extensions: the parent, the fragments the child adds, the names it adds.
Extensions ==
    <<  [parent |-> 1, own |-> <<Literal(<<"e">>), Function("count")>>, names |-> {}],
        [parent |-> 3, own |-> <<Function("active")>>, names |-> {DataKey}],
        [parent |-> 5, own |-> <<Literal(<<"e">>)>>, names |-> {}],
        [parent |-> 4, own |-> <<Function("active"), Literal(<<"e">>)>>, names |-> {}]  >>

\* The descriptors of the program, created once at module initialisation.
Descriptors ==
    Bases \o [i \in DOMAIN Extensions |->
                Extend(Bases[Extensions[i].parent], Extensions[i].own, Extensions[i].names)]

DescIds == DOMAIN Descriptors

IsExtension(d) == d > Len(Bases)
ParentOf(d) == Bases[Extensions[d - Len(Bases)].parent]
OwnOf(d) == Extensions[d - Len(Bases)].own

\* computeClassName of descriptor d: one Class Resolver pass over its
\* fragment sequence.
ComputeClassName(d, p) == ResolveFragments(Descriptors[d].fragments, p)

\* ------------------------------------------------------------- state
Slots == 1 .. NumSlots

VARIABLES
    propsToFilter,      \* per descriptor: the propsToFilter array its closure holds
    pc,                 \* per frame: the line the render is at
    desc,               \* per frame: the descriptor being rendered (0: none)
    props,              \* per frame: the caller's properties record
    ref,                \* per frame: the forwarded ref
    calls,              \* per frame: how often computeClassName was invoked
    seenProps,          \* per frame: the record computeClassName was given
    computedClassName,  \* per frame: const computedClassName
    domProps,           \* per frame: const domProps
    pending,            \* per frame: the keys the for-in loop has yet to visit
    finalClassName,     \* per frame: const finalClassName
    element,            \* per frame: the element createElement returned
    error,              \* per frame: the error the render threw
    previous            \* what the caller got from the render that finished last

vars == <<propsToFilter, pc, desc, props, ref, calls, seenProps, computedClassName,
          domProps, pending, finalClassName, element, error, previous>>

NoElement == [tag |-> "none", props |-> EmptyProps]
NoError == "none"

Init ==
    /\ propsToFilter = [d \in DescIds |-> Descriptors[d].propsToFilter]
    /\ pc = [r \in Slots |-> "idle"]
    /\ desc = [r \in Slots |-> 0]
    /\ props = [r \in Slots |-> EmptyProps]
    /\ ref = [r \in Slots |-> NullRef]
    /\ calls = [r \in Slots |-> 0]
    /\ seenProps = [r \in Slots |-> EmptyProps]
    /\ computedClassName = [r \in Slots |-> EmptyStr]
    /\ domProps = [r \in Slots |-> EmptyProps]
    /\ pending = [r \in Slots |-> << >>]
    /\ finalClassName = [r \in Slots |-> EmptyStr]
    /\ element = [r \in Slots |-> NoElement]
    /\ error = [r \in Slots |-> NoError]
    /\ previous = "nothing"

\* ---------------------------------------------- the render, line by line
\* A slip of scope: domProps hoisted out of the callback, one map for all.
SharedFrame(r) == 1

\* const domProps is declared inside the render callback: every invocation
\* has a map of its own.
Frame(r) == r

\* A slip of order: computeClassName given the record without its
\* "$"-prefixed properties.
ArgumentFiltered(p) ==
    [k \in { k \in DOMAIN p : ~(k # << >> /\ Head(k) = "$") } |-> p[k]]

\* A slip of destructuring: const { className, ...rest } = props, and
\* computeClassName given rest.
ArgumentWithoutClassName(p) ==
    [k \in DOMAIN p \ {ClassNameKey} |-> p[k]]

\* computeClassName(props as T): the record handed to computeClassName.
ClassNameArgument(p) == p

\* A slip of error handling: the throw caught, the class left empty.
Swallowed(out) == FALSE

\* Line 27 stands in no try block: a throw of computeClassName leaves the
\* render.
Uncaught(out) == ~out.ok

\* const domProps: Record<string, unknown> = {}
NewDomProps(old) == EmptyProps

\* The keys of p in enumeration order.
KeysOf(p) == SelectSeq(KeyOrder, LAMBDA k : Has(p, k))

\* A slip of the filter: || where the code has &&.
PassThroughEither(key, names) == ~(key # << >> /\ Head(key) = "$") \/ key \notin names

\* !key.startsWith("$") && !propsToFilter.includes(key)
PassThrough(key, names) == ~StartsWithDollar(key) /\ key \notin names

\* A slip of the filter: the names seen are remembered in the array.
RememberKey(names, key) == names \cup {key}

\* propsToFilter.includes(key) reads the array and leaves it as it is.
AfterIncludes(names, key) == names

\* A slip of the filter: delete props[key] for a "$"-prefixed key.
DeleteFiltered(p, key) ==
    IF key # << >> /\ Head(key) = "$"
    THEN [k \in DOMAIN p \ {key} |-> p[k]]
    ELSE p

\* props[key] on line 33 reads the caller's record and leaves it as it is.
AfterRead(p, key) == p

\* domProps[key] = props[key]
Assign(dp, key, value) == (key :> value) @@ dp

\* domProps.className || ""
IncomingClassName(dp) ==
    IF Has(dp, ClassNameKey) /\ dp[ClassNameKey] # EmptyStr
    THEN dp[ClassNameKey]
    ELSE EmptyStr

\* A slip of the merge: the trailing .trim() left out.
MergeWithoutTrim(computed, incoming) ==
    JoinSpace(FilterBoolean(<<computed, incoming>>))

\* A slip of the merge: the caller's class name put first.
MergeCallerFirst(computed, incoming) ==
    Trim(JoinSpace(FilterBoolean(<<incoming, computed>>)))

\* [computedClassName, incomingClassName].filter(Boolean).join(" ").trim()
MergeClassNames(computed, incoming) ==
    Trim(JoinSpace(FilterBoolean(<<computed, incoming>>)))

\* A slip of the spread: ref attached only when the caller supplied one.
RefIfSupplied(dp, final, fref) ==
    IF fref = "null"
    THEN (ClassNameKey :> final) @@ dp
    ELSE (RefKey :> fref) @@ (ClassNameKey :> final) @@ dp

\* A slip of the spread: { className: finalClassName, ref, ...domProps }.
SpreadLast(dp, final, fref) ==
    dp @@ (ClassNameKey :> final) @@ (RefKey :> fref)

\* { ...domProps, className: finalClassName, ref }
ElementProps(dp, final, fref) ==
    (RefKey :> fref) @@ (ClassNameKey :> final) @@ dp

\* Lines 31-35 run to their end: the for-in loop over keys.
RECURSIVE FilterAll(_, _, _, _)
FilterAll(keys, p, names, dp) ==
    IF keys = << >> THEN dp
    ELSE FilterAll(Tail(keys), p, names,
                   IF PassThrough(Head(keys), names)
                   THEN Assign(dp, Head(keys), p[Head(keys)])
                   ELSE dp)

\* Lines 26-46 run to their end in a program that has rendered nothing yet:
\* what the caller gets for descriptor d, record p and ref fref.
FirstRender(d, p, fref) ==
    LET out == ComputeClassName(d, ClassNameArgument(p))
        dp == FilterAll(KeysOf(p), p, Descriptors[d].propsToFilter, EmptyProps)
        final == MergeClassNames(out.val, IncomingClassName(dp))
    IN  IF Uncaught(out)
        THEN [thrown |-> TRUE, err |-> out.err, element |-> NoElement]
        ELSE [thrown |-> FALSE, err |-> NoError,
              element |-> [tag |-> Descriptors[d].tag,
                           props |-> ElementProps(dp, final, fref)]]

\* The render callback is invoked with (props, ref).
Render(r, d, p, fref) ==
    /\ pc[r] = "idle"
    /\ pc' = [pc EXCEPT ![r] = "L27"]
    /\ desc' = [desc EXCEPT ![r] = d]
    /\ props' = [props EXCEPT ![r] = p]
    /\ ref' = [ref EXCEPT ![r] = fref]
    /\ UNCHANGED <<propsToFilter, calls, seenProps, computedClassName, domProps,
                   pending, finalClassName, element, error, previous>>

\* Lines 27 and 30: computeClassName(props), then the empty domProps.
CallComputeClassName(r) ==
    /\ pc[r] = "L27"
    /\ LET arg == ClassNameArgument(props[r])
           out == ComputeClassName(desc[r], arg)
       IN  /\ calls' = [calls EXCEPT ![r] = @ + 1]
           /\ seenProps' = [seenProps EXCEPT ![r] = arg]
           /\ IF Uncaught(out)
              THEN /\ pc' = [pc EXCEPT ![r] = "thrown"]
                   /\ error' = [error EXCEPT ![r] = out.err]
                   /\ UNCHANGED <<computedClassName, domProps, pending>>
              ELSE /\ pc' = [pc EXCEPT ![r] = "L31"]
                   /\ computedClassName' = [computedClassName EXCEPT ![r] = out.val]
                   /\ domProps' = [domProps EXCEPT ![Frame(r)] = NewDomProps(@)]
                   /\ pending' = [pending EXCEPT ![r] = KeysOf(props[r])]
                   /\ UNCHANGED error
    /\ UNCHANGED <<propsToFilter, desc, props, ref, finalClassName, element, previous>>

\* Lines 31-35: one iteration of the for-in loop.
FilterKey(r) ==
    /\ pc[r] = "L31"
    /\ pending[r] # << >>
    /\ LET key == Head(pending[r])
           names == propsToFilter[desc[r]]
       IN  /\ domProps' =
                 IF PassThrough(key, names)
                 THEN [domProps EXCEPT ![Frame(r)] = Assign(@, key, props[r][key])]
                 ELSE domProps
           /\ propsToFilter' = [propsToFilter EXCEPT ![desc[r]] = AfterIncludes(@, key)]
    /\ props' = [props EXCEPT ![r] = AfterRead(@, Head(pending[r]))]
    /\ pending' = [pending EXCEPT ![r] = Tail(@)]
    /\ UNCHANGED <<pc, desc, ref, calls, seenProps, computedClassName,
                   finalClassName, element, error, previous>>

\* Lines 38-39, once the loop has visited every key.
MergeClassName(r) ==
    /\ pc[r] = "L31"
    /\ pending[r] = << >>
    /\ finalClassName' = [finalClassName EXCEPT ![r] =
           MergeClassNames(computedClassName[r], IncomingClassName(domProps[Frame(r)]))]
    /\ pc' = [pc EXCEPT ![r] = "L41"]
    /\ UNCHANGED <<propsToFilter, desc, props, ref, calls, seenProps,
                   computedClassName, domProps, pending, element, error, previous>>

\* Lines 41-45: createElement(tag, {...domProps, className, ref}).
CreateElement(r) ==
    /\ pc[r] = "L41"
    /\ element' = [element EXCEPT ![r] =
           [tag |-> Descriptors[desc[r]].tag,
            props |-> ElementProps(domProps[Frame(r)], finalClassName[r], ref[r])]]
    /\ pc' = [pc EXCEPT ![r] = "returned"]
    /\ UNCHANGED <<propsToFilter, desc, props, ref, calls, seenProps,
                   computedClassName, domProps, pending, finalClassName, error,
                   previous>>

\* The caller has the element, or the error; the frame is gone.
Return(r) ==
    /\ pc[r] \in {"returned", "thrown"}
    /\ pc' = [pc EXCEPT ![r] = "idle"]
    /\ desc' = [desc EXCEPT ![r] = 0]
    /\ props' = [props EXCEPT ![r] = EmptyProps]
    /\ ref' = [ref EXCEPT ![r] = NullRef]
    /\ calls' = [calls EXCEPT ![r] = 0]
    /\ seenProps' = [seenProps EXCEPT ![r] = EmptyProps]
    /\ computedClassName' = [computedClassName EXCEPT ![r] = EmptyStr]
    /\ domProps' = [domProps EXCEPT ![Frame(r)] = EmptyProps]
    /\ pending' = [pending EXCEPT ![r] = << >>]
    /\ finalClassName' = [finalClassName EXCEPT ![r] = EmptyStr]
    /\ element' = [element EXCEPT ![r] = NoElement]
    /\ error' = [error EXCEPT ![r] = NoError]
    /\ previous' = IF pc[r] = "thrown" THEN "error" ELSE "element"
    /\ UNCHANGED propsToFilter

\* ------------------------------------------------------ specifications
\* One render at a time, over every descriptor, record and ref.
AllInputs == [d : DescIds, p : AllProps, ref : Refs]

Next ==
    \/ \E i \in AllInputs : Render(1, i.d, i.p, i.ref)
    \/ CallComputeClassName(1)
    \/ FilterKey(1)
    \/ MergeClassName(1)
    \/ CreateElement(1)
    \/ Return(1)

Spec == Init /\ [][Next]_vars

\* Renders interleaved line by line (server-side rendering of many
\* components in parallel), over a few inputs.
SliderProps == (ActiveKey :> TRUE) @@ (ClassNameKey :> <<"x">>) @@ (DataKey :> <<"d">>)
CountProps == (CountKey :> 1) @@ (PlainCountKey :> 1) @@ (DataKey :> <<"d">>)
ConcInputs == [d : {1, 3, 5}, p : {SliderProps, CountProps}, ref : Refs]

NextConc ==
    \E r \in Slots :
        \/ \E i \in ConcInputs : Render(r, i.d, i.p, i.ref)
        \/ CallComputeClassName(r)
        \/ FilterKey(r)
        \/ MergeClassName(r)
        \/ CreateElement(r)
        \/ Return(r)

SpecConc == Init /\ [][NextConc]_vars

\* --------------------------------------------------------------- claims
\* The frames whose render has created its element.
Returned == { r \in Slots : pc[r] = "returned" }

\* The class name the caller supplied: the empty string when there is none.
CallerClassName(r) ==
    IF ClassNameKey \in DOMAIN props[r] THEN props[r][ClassNameKey] ELSE EmptyStr

\* The class name the caller supplied, as far as the descriptor lets it
\* through: a className declared internal is dropped.
PassedClassName(r) ==
    IF ClassNameKey \in Descriptors[desc[r]].propsToFilter
    THEN EmptyStr
    ELSE CallerClassName(r)

\* The output of computeClassName(props).
ComputedOf(r) == ComputeClassName(desc[r], props[r]).val

\* trim(join of the non-empty parts with one space), case by case.
JoinedParts(a, b) ==
    IF a # EmptyStr /\ b # EmptyStr THEN Trim(a \o <<SP>> \o b)
    ELSE IF a # EmptyStr THEN Trim(a)
    ELSE IF b # EmptyStr THEN Trim(b)
    ELSE EmptyStr

ClassNameOf(r) == element[r].props[ClassNameKey]

\* C1 as stated: for every render the element's className is
\* trim(join of the non-empty parts of [computeClassName(props), the
\* caller-supplied className]).
C1_AsStated ==
    \A r \in Returned : ClassNameOf(r) = JoinedParts(ComputedOf(r), CallerClassName(r))

\* C1 amended: for every render the element's className is trim(join of the
\* non-empty parts of [computeClassName(props), the caller-supplied
\* className]), where a caller-supplied className counts as empty when
\* "className" is in propsToFilter.
C1_MergedClassName ==
    \A r \in Returned : ClassNameOf(r) = JoinedParts(ComputedOf(r), PassedClassName(r))

\* The spec's scenario: static "t m", dynamic p => p.$active ? "b" : "r",
\* rendered with {$active: true, className: "x"}, gives "t m b x".
C1_Witness ==
    \E r \in Returned :
        /\ desc[r] = 1
        /\ props[r] = (ActiveKey :> TRUE) @@ (ClassNameKey :> <<"x">>)
        /\ ClassNameOf(r) = <<"t", SP, "m", SP, "b", SP, "x">>

\* C2 as stated: for every descriptor, also one whose propsToFilter holds
\* "className", and every non-empty caller class name C, the final className
\* is the descriptor's computed tokens followed by C's tokens.
C2_AsStated ==
    \A r \in Returned :
        CallerClassName(r) # EmptyStr =>
            Tokens(ClassNameOf(r)) = Tokens(ComputedOf(r)) \o Tokens(CallerClassName(r))

\* C2 amended: for every descriptor whose propsToFilter does not hold
\* "className" and every non-empty caller class name C, the final className is
\* the descriptor's computed tokens followed by C's tokens in their order;
\* when propsToFilter holds "className", C is dropped and the final className
\* is the computed tokens alone.
C2_CallerTokensLast ==
    \A r \in Returned :
        CallerClassName(r) # EmptyStr =>
            Tokens(ClassNameOf(r)) =
                IF ClassNameKey \in Descriptors[desc[r]].propsToFilter
                THEN Tokens(ComputedOf(r))
                ELSE Tokens(ComputedOf(r)) \o Tokens(CallerClassName(r))

C2_Witness ==
    \E r \in Returned :
        /\ CallerClassName(r) = <<"x", SP, "y">>
        /\ ClassNameKey \notin Descriptors[desc[r]].propsToFilter
        /\ Len(Tokens(ComputedOf(r))) >= 2
        /\ Tokens(ClassNameOf(r)) = Tokens(ComputedOf(r)) \o << <<"x">>, <<"y">> >>

\* The "$"-prefixed names among a record's keys.
DollarKeys(p) == { k \in DOMAIN p : k \in {ActiveKey, CountKey} }

\* C3: no property whose name starts with "$" is ever among the properties
\* collected for, or passed to, the underlying element.
C3_NoDollarForwarded ==
    \A r \in Slots :
        /\ DollarKeys(domProps[r]) = {}
        /\ DollarKeys(element[r].props) = {}

C3_Witness ==
    \E r \in Returned :
        /\ DollarKeys(props[r]) = {ActiveKey, CountKey}
        /\ props[r][CountKey] = 0
        /\ Descriptors[desc[r]].propsToFilter = {}
        /\ DOMAIN element[r].props = {ClassNameKey, RefKey, DataKey}

\* The pass-through names of a frame's record.
PassThroughKeys(r) ==
    (DOMAIN props[r] \ DollarKeys(props[r])) \ Descriptors[desc[r]].propsToFilter

\* C4: the element's properties are exactly the pass-through properties with
\* their values, className replaced by the final class string (always
\* present), and the forwarded ref.
C4_ExactProps ==
    \A r \in Returned :
        LET ep == element[r].props
        IN  /\ DOMAIN ep = PassThroughKeys(r) \cup {ClassNameKey, RefKey}
            /\ \A k \in PassThroughKeys(r) \ {ClassNameKey} : ep[k] = props[r][k]
            /\ ep[ClassNameKey] = finalClassName[r]
            /\ ep[RefKey] = ref[r]

C4_Witness ==
    \E r \in Returned :
        /\ DOMAIN props[r] = Keys
        /\ Descriptors[desc[r]].propsToFilter = {PlainCountKey}
        /\ props[r][ClassNameKey] = <<"x">>
        /\ DOMAIN element[r].props = {ClassNameKey, RefKey, DataKey}
        /\ element[r].props[ClassNameKey] = <<"n", SP, "x">>

\* C5 as stated: a property $count that is not in propsToFilter is forwarded
\* to the element and is visible to computeClassName.
C5_AsStated ==
    \A r \in Returned :
        (CountKey \in DOMAIN props[r] /\ CountKey \notin Descriptors[desc[r]].propsToFilter) =>
            /\ CountKey \in DOMAIN element[r].props
            /\ CountKey \in DOMAIN seenProps[r]

\* C5 amended: a property $count is visible to computeClassName with its
\* value and is not forwarded; an unprefixed property count that is not in
\* propsToFilter is forwarded with its value and is visible to
\* computeClassName in the same render.
C5_CountVisible ==
    \A r \in Returned :
        /\ CountKey \in DOMAIN props[r] =>
              /\ CountKey \notin DOMAIN element[r].props
              /\ CountKey \in DOMAIN seenProps[r]
              /\ seenProps[r][CountKey] = props[r][CountKey]
        /\ (PlainCountKey \in DOMAIN props[r]
                /\ PlainCountKey \notin Descriptors[desc[r]].propsToFilter) =>
              /\ PlainCountKey \in DOMAIN element[r].props
              /\ element[r].props[PlainCountKey] = props[r][PlainCountKey]
              /\ PlainCountKey \in DOMAIN seenProps[r]
              /\ seenProps[r][PlainCountKey] = props[r][PlainCountKey]

\* Static "p" and p => p.$count ? "c" : "", rendered with $count and count.
C5_Witness ==
    \E r \in Returned :
        /\ desc[r] = 2
        /\ DOMAIN props[r] = {CountKey, PlainCountKey}
        /\ props[r][CountKey] = 1
        /\ ClassNameOf(r) = <<"p", SP, "c">>
        /\ DOMAIN element[r].props = {ClassNameKey, RefKey, PlainCountKey}

\* The frames whose render is past line 27.
Started == { r \in Slots : pc[r] \notin {"idle", "L27"} }

\* C6: when computeClassName throws, the render ends with that same error:
\* it is not caught, retried or replaced by a fallback class, and no element
\* is created.
C6_ThrowPropagates ==
    \A r \in Started :
        LET out == ComputeClassName(desc[r], props[r])
        IN  /\ ~out.ok =>
                /\ pc[r] = "thrown"
                /\ error[r] = out.err
                /\ calls[r] = 1
                /\ element[r] = NoElement
                /\ finalClassName[r] = EmptyStr
            /\ pc[r] = "thrown" => ~out.ok

C6_Witness ==
    \E r \in Slots :
        /\ pc[r] = "thrown"
        /\ error[r] = "TypeError"
        /\ IsExtension(desc[r])
        /\ ClassNameKey \in DOMAIN props[r]
        /\ element[r] = NoElement

\* C7: every element carries the ref key, with the ref its own render
\* received: the null ref when the caller supplied none.
C7_RefAttached ==
    \A r \in Returned :
        /\ RefKey \in DOMAIN element[r].props
        /\ element[r].props[RefKey] = ref[r]

\* Two live renders, one without a ref and one with.
C7_Witness ==
    \E r1, r2 \in Returned :
        /\ ref[r1] = NullRef
        /\ element[r1].props[RefKey] = NullRef
        /\ ref[r2] = "refA"
        /\ element[r2].props[RefKey] = "refA"

\* C8: whatever was rendered before, a render of descriptor D with record P
\* ends as the first render of the program would: the same class string and
\* forwarded properties, or the same error; and what outlives a render, the
\* closure's propsToFilter, is as it was before any render.
C8_NoCrossRenderMemory ==
    /\ \A d \in DescIds : propsToFilter[d] = Descriptors[d].propsToFilter
    /\ \A r \in Slots :
          /\ pc[r] = "returned" =>
                /\ ~FirstRender(desc[r], props[r], ref[r]).thrown
                /\ element[r] = FirstRender(desc[r], props[r], ref[r]).element
          /\ pc[r] = "thrown" =>
                /\ FirstRender(desc[r], props[r], ref[r]).thrown
                /\ error[r] = FirstRender(desc[r], props[r], ref[r]).err

\* A render that forwards a property, finished after a render that failed.
C8_Witness ==
    \E r \in Returned :
        /\ previous = "error"
        /\ PlainCountKey \in DOMAIN element[r].props
        /\ ClassNameOf(r) # EmptyStr

\* The keys the loop of a frame has visited.
Visited(r) == { k \in DOMAIN props[r] : \A i \in DOMAIN pending[r] : pending[r][i] # k }

\* C9: in interleaved renders every frame holds, line by line, what it
\* holds when run alone: its own class string, its own filtered map built
\* from its own record, its own element; propsToFilter stays as created.
C9_FramesIsolated ==
    /\ propsToFilter = [d \in DescIds |-> Descriptors[d].propsToFilter]
    /\ \A r \in Slots :
          /\ pc[r] \in {"idle", "L27", "thrown"} => domProps[r] = EmptyProps
          /\ pc[r] \in {"L31", "L41", "returned"} =>
                /\ computedClassName[r] = ComputedOf(r)
                /\ DOMAIN domProps[r] = Visited(r) \cap PassThroughKeys(r)
                /\ \A k \in DOMAIN domProps[r] : domProps[r][k] = props[r][k]
          /\ pc[r] \in {"L41", "returned"} =>
                finalClassName[r] = JoinedParts(ComputedOf(r), PassedClassName(r))
          /\ pc[r] = "returned" =>
                element[r] = FirstRender(desc[r], props[r], ref[r]).element

\* Two renders of different descriptors, both inside their filter loop.
C9_Witness ==
    \E r1, r2 \in Slots :
        /\ desc[r1] # desc[r2]
        /\ props[r1] # props[r2]
        /\ pc[r1] = "L31" /\ pending[r1] # << >> /\ domProps[r1] # EmptyProps
        /\ pc[r2] = "L31" /\ pending[r2] # << >> /\ domProps[r2] # EmptyProps

\* Parent's classes, child's classes, caller's classes, empty parts skipped.
ThreeParts(a, b, c) == Trim(JoinSpace(SelectSeq(<<a, b, c>>, LAMBDA x : x # EmptyStr)))

ParentClasses(r) == ResolveFragments(ParentOf(desc[r]).fragments, props[r]).val
ChildClasses(r) == ResolveFragments(OwnOf(desc[r]), props[r]).val

C11_ComputeOnceOnFullProps ==
    \A r \in Slots :
        /\ pc[r] \in {"idle", "L27"} =>
              /\ calls[r] = 0
              /\ domProps[r] = EmptyProps
              /\ pending[r] = << >>
        /\ pc[r] \in {"L31", "L41", "returned", "thrown"} =>
              /\ calls[r] = 1
              /\ DOMAIN seenProps[r] = DOMAIN props[r]
              /\ \A k \in DOMAIN props[r] : seenProps[r][k] = props[r][k]
        /\ (domProps[r] # EmptyProps \/ pending[r] # << >>) => calls[r] = 1

\* A record with "$"-prefixed keys, a key in propsToFilter and a className,
\* rendered to its end.
C11_Witness ==
    \E r \in Returned :
        /\ DOMAIN props[r] = Keys
        /\ Descriptors[desc[r]].propsToFilter = {PlainCountKey, DataKey}
        /\ calls[r] = 1
        /\ seenProps[r] = props[r]
        /\ DOMAIN domProps[r] = {ClassNameKey}

\* The frames whose render is running: invoked and not yet ended.
Running == { r \in Slots : pc[r] \in {"L27", "L31", "L41"} }

\* C12: no step of a render changes the caller's properties record or a
\* descriptor's propsToFilter: when the render has ended, with an element or
\* with an error, the record has the keys and values it was passed with.
C12_InputsUnchanged ==
    [][ /\ \A r \in Running : props'[r] = props[r]
        /\ propsToFilter' = propsToFilter ]_vars

\* A render that filtered "$"-prefixed keys and merged the class name, and
\* whose record still holds them.
C12_Witness ==
    \E r \in Returned :
        /\ DollarKeys(props[r]) = {ActiveKey, CountKey}
        /\ CallerClassName(r) = <<SP, "x", SP>>
        /\ ClassNameOf(r) = <<"t", SP, "m", SP, "b", SP, SP, "x">>
        /\ DollarKeys(element[r].props) = {}
        /\ DOMAIN domProps[r] # DOMAIN props[r]
        /\ propsToFilter[desc[r]] = Descriptors[desc[r]].propsToFilter

====
